---------------------------- MODULE Spec2Model ----------------------------
(***************************************************************************)
(* Model of the two nucleo comparison harnesses of FuzzyMatch:             *)
(*   Comparison/bench-nucleo/src/main.rs    (the bench tool)               *)
(*   Comparison/quality-nucleo/src/main.rs  (the quality tool)             *)
(*                                                                         *)
(* Text is a sequence of one-character strings.  The fuzzy scorer of the   *)
(* nucleo library is a black box: a deterministic function from a haystack *)
(* to an optional score, held in the variable scorer and never changed.    *)
(***************************************************************************)
EXTENDS Integers, Sequences, FiniteSets, TLC

VARIABLES
    tool,                 \* "bench" or "quality": which executable runs
    pc,                   \* position of main in its control flow
    content,              \* the corpus file as read by fs::read_to_string
    rows,                 \* the rows written to the corpus file (test fixture)
    i,                    \* index of the corpus line the loader loop is at
    instruments,          \* Vec<Instrument>
    scorer,               \* the library's scoring function: <<text, haystack>> -> Option<u32>
    args,                 \* bench: the command-line arguments after the program name
    queries,              \* bench: Vec<Query>
    iterations,           \* bench: the parsed iteration count
    wq,                   \* bench: number of queries the warmup has run
    iter,                 \* bench: the iteration the timed loop is at
    qi,                   \* bench: the query the iteration is at
    ci,                   \* bench: the candidate the scan is at
    candidates,           \* bench: the candidate column selected for the query
    match_count,          \* bench: matches counted in the running scan
    heap,                 \* bench: BinaryHeap<Reverse<(u32, usize)>>, as its backing vector
    top_results,          \* bench: the ranked list of the last finished query
    query_timings_ms,     \* bench: per query, the timings recorded so far
    query_match_counts,   \* bench: per query, the retained match count
    iteration_totals_ms,  \* bench: the total time of each finished iteration
    report,               \* bench: the figures the results stage prints
    count_log,            \* history: <<iter, query, match_count>> of every finished scan
    stdin,                \* quality: the lines of the standard input
    line_no,              \* quality: number of input lines read
    query,                \* quality: the query text of the line being answered
    field,                \* quality: the field text of the line being answered
    idx,                  \* quality: the instrument the scan is at
    candidate,            \* quality: the text last put before the scorer
    results,              \* quality: Vec<(u32, usize)> of the line being answered
    stdout,               \* quality: the rows printed, each with its input line number
    answered              \* history: the input lines whose rows have been printed

loadVars == <<content, rows, i, instruments>>

benchIn == <<args, queries>>

benchScan == <<ci, candidates, match_count, heap>>

benchStore == <<query_timings_ms, query_match_counts, iteration_totals_ms, count_log>>

benchVars == <<benchIn, iterations, wq, iter, qi, benchScan, top_results, benchStore, report>>

qualVars == <<stdin, line_no, query, field, idx, candidate, results, stdout, answered>>

vars == <<tool, pc, loadVars, scorer, benchVars, qualVars>>

-----------------------------------------------------------------------------
(* Text helpers *)

TAB == "\t"
NL == "\n"

\* The last element of a non-empty sequence.
Last(s) == s[Len(s)]

\* s without its last element.
Front(s) == SubSeq(s, 1, Len(s) - 1)

\* str::split(sep): the pieces between separators, one more than separators.
RECURSIVE SplitFrom(_, _, _, _)
SplitFrom(s, sep, k, cur) ==
    IF k > Len(s) THEN <<cur>>
    ELSE IF s[k] = sep THEN <<cur>> \o SplitFrom(s, sep, k + 1, <<>>)
    ELSE SplitFrom(s, sep, k + 1, Append(cur, s[k]))

Split(s, sep) == SplitFrom(s, sep, 1, <<>>)

\* str::lines(): split at line feeds; the piece after a final line feed (or
\* the only piece of an empty text) is not a line.
Lines(s) ==
    LET pieces == Split(s, NL)
    IN  IF Last(pieces) = <<>> THEN Front(pieces) ELSE pieces

-----------------------------------------------------------------------------
(* Values shared by the scoring loops *)

\* Option<T>: None is the empty sequence, Some(x) is <<x>>.
None == <<>>
Some(x) == <<x>>

SYMBOL == <<"s", "y", "m", "b", "o", "l">>
ISIN == <<"i", "s", "i", "n">>
NAME == <<"n", "a", "m", "e">>

\* pattern.score(haystack, &mut matcher): the library's answer for the pattern
\* built from text and the haystack built from the candidate.
Score(text, haystack) == scorer[<<text, haystack>>]

\* slice::sort_by, a stable sort: Before(a, b) iff the comparator says Less.
\* An element is placed after the elements the comparator puts before it and
\* after the equal elements that come earlier in s.
SortBy(s, Before(_, _)) ==
    LET n == Len(s)
        places == [k \in 1..n |->
                     Cardinality({ j \in 1..n :
                         \/ Before(s[j], s[k])
                         \/ (~Before(s[k], s[j]) /\ j < k) }) + 1]
    IN  CHOOSE sorted \in { [r \in 1..n |-> s[CHOOSE k \in 1..n : place[k] = r]] :
                              place \in {places} } : TRUE

RECURSIVE SumSeq(_)
SumSeq(s) == IF Len(s) = 0 THEN 0 ELSE s[1] + SumSeq(Tail(s))

\* The indices of s, in order, whose element satisfies Test.
SelectSeqIdx(s, Test(_)) ==
    LET kept == { k \in 1..Len(s) : Test(s[k]) }
        places == [k \in kept |-> Cardinality({ m \in kept : m <= k })]
    IN  CHOOSE idxs \in { [j \in 1..Cardinality(kept) |-> CHOOSE k \in kept : place[k] = j] :
                            place \in {places} } : TRUE

-----------------------------------------------------------------------------
(* Bench tool: arguments *)

TOP_K == 100

DEFAULT_ITERATIONS == 5

FLAG_ITERATIONS == <<"-", "-", "i", "t", "e", "r", "a", "t", "i", "o", "n", "s">>

Digits == {"0", "1", "2", "3", "4", "5", "6", "7", "8", "9"}

DigitValue(c) ==
    CASE c = "0" -> 0 [] c = "1" -> 1 [] c = "2" -> 2 [] c = "3" -> 3
      [] c = "4" -> 4 [] c = "5" -> 5 [] c = "6" -> 6 [] c = "7" -> 7
      [] c = "8" -> 8 [] c = "9" -> 9

RECURSIVE DecimalValue(_, _)
DecimalValue(s, acc) ==
    IF Len(s) = 0 THEN acc ELSE DecimalValue(Tail(s), 10 * acc + DigitValue(s[1]))

\* str::parse::<usize>(): an optional '+' and then one or more decimal digits;
\* anything else (the empty text, a '-', a letter) is an Err.
ParseUsize(s) ==
    LET digits == IF Len(s) > 0 /\ s[1] = "+" THEN Tail(s) ELSE s
    IN  IF Len(digits) = 0 \/ \E k \in 1..Len(digits) : digits[k] \notin Digits
        THEN None
        ELSE Some(DecimalValue(digits, 0))

\* args.iter().position(|a| a == flag): 0 when the flag is not there.
Position(as, flag) ==
    IF \E k \in 1..Len(as) : as[k] = flag
    THEN CHOOSE k \in 1..Len(as) : as[k] = flag /\ \A m \in 1..(k - 1) : as[m] # flag
    ELSE 0

\* bench main.rs 101-108: Some(n), or None where an expect() aborts.
IterationsArg(as) ==
    LET at == Position(as, FLAG_ITERATIONS)
    IN  IF at = 0 THEN Some(DEFAULT_ITERATIONS)
        ELSE IF at + 1 > Len(as) THEN None
        ELSE ParseUsize(as[at + 1])

\* bench main.rs 101-108.
ParseIterations ==
    /\ tool = "bench" /\ pc = "parse_iterations"
    /\ IF IterationsArg(args) = None
       THEN /\ pc' = "aborted"
            /\ UNCHANGED iterations
       ELSE /\ pc' = "warmup"
            /\ iterations' = IterationsArg(args)[1]
    /\ UNCHANGED <<qualVars, tool, loadVars, scorer, benchIn, wq, iter, qi, benchScan,
                   top_results, benchStore, report>>

-----------------------------------------------------------------------------
(* Bench tool: candidate selection, warmup *)

\* bench main.rs 94-96.
symbol_candidates == [k \in 1..Len(instruments) |-> instruments[k].symbol]
name_candidates == [k \in 1..Len(instruments) |-> instruments[k].name]
isin_candidates == [k \in 1..Len(instruments) |-> instruments[k].isin]

\* Faulty variant: the field is compared without its last character, so that a field
\* with one extra character selects the column as well.
SelectCandidatesByPrefix(f) ==
    IF f = SYMBOL \/ (Len(f) > 0 /\ SubSeq(f, 1, Len(f) - 1) = SYMBOL) THEN symbol_candidates
    ELSE IF f = ISIN \/ (Len(f) > 0 /\ SubSeq(f, 1, Len(f) - 1) = ISIN) THEN isin_candidates
    ELSE name_candidates

\* bench main.rs 153-159 in the timed pass.
SelectCandidates(f) ==
    IF f = SYMBOL THEN symbol_candidates
    ELSE IF f = ISIN THEN isin_candidates
    ELSE name_candidates

\* bench main.rs 115-121 in the warmup.
WarmupSelectCandidates(f) ==
    IF f = SYMBOL THEN symbol_candidates
    ELSE IF f = ISIN THEN isin_candidates
    ELSE name_candidates

\* bench main.rs 114-129: the warmup runs one query over its candidates and
\* drops every score.
WarmupQuery ==
    /\ tool = "bench" /\ pc = "warmup"
    /\ wq < Len(queries)
    /\ candidates' = WarmupSelectCandidates(queries[wq + 1].field)
    /\ wq' = wq + 1
    /\ UNCHANGED <<qualVars, tool, pc, loadVars, scorer, benchIn, iterations, iter, qi, ci,
                   match_count, heap, top_results, benchStore, report>>

\* bench main.rs 130-147: the warmup is over; the timing storage is created.
WarmupDone ==
    /\ tool = "bench" /\ pc = "warmup"
    /\ wq = Len(queries)
    /\ query_timings_ms' = [q \in 1..Len(queries) |-> <<>>]
    /\ query_match_counts' = [q \in 1..Len(queries) |-> 0]
    /\ iteration_totals_ms' = <<>>
    /\ iter' = 0
    /\ pc' = "iter_head"
    /\ UNCHANGED <<qualVars, tool, loadVars, scorer, benchIn, iterations, wq, qi, benchScan,
                   top_results, count_log, report>>

-----------------------------------------------------------------------------
(* Bench tool: the top-K heap *)

\* Ord of (u32, usize): by score, then by candidate index.
TupleLe(a, b) == a[1] < b[1] \/ (a[1] = b[1] /\ a[2] <= b[2])

\* Faulty variant: the heap orders its elements without Reverse, as a max-heap.
HeapLeNoReverse(a, b) == TupleLe(a, b)

\* Faulty variant: the heap orders its elements by score alone, not by index.
HeapLeByScore(a, b) == b[1] <= a[1]

\* Ord of Reverse<(u32, usize)>, the heap's element type.
HeapLe(a, b) == TupleLe(b, a)

\* BinaryHeap::sift_up: the element elt, taken out of position pos, moves up
\* while it is greater than its parent.
RECURSIVE SiftUp(_, _, _, _)
SiftUp(data, start, pos, elt) ==
    IF pos > start /\ ~HeapLe(elt, data[pos \div 2])
    THEN SiftUp([data EXCEPT ![pos] = data[pos \div 2]], start, pos \div 2, elt)
    ELSE [data EXCEPT ![pos] = elt]

\* BinaryHeap::sift_down_to_bottom: the hole moves down to a leaf along the
\* greater children, then the element sifts back up.
RECURSIVE SiftDownToBottom(_, _, _, _)
SiftDownToBottom(data, start, pos, elt) ==
    LET end == Len(data)
        child == 2 * pos
    IN  IF child < end
        THEN LET c == IF HeapLe(data[child], data[child + 1]) THEN child + 1 ELSE child
             IN  SiftDownToBottom([data EXCEPT ![pos] = data[c]], start, c, elt)
        ELSE IF child = end
        THEN SiftUp([data EXCEPT ![pos] = data[child]], start, child, elt)
        ELSE SiftUp(data, start, pos, elt)

\* BinaryHeap::push (bench main.rs 172).
HeapPush(data, item) == SiftUp(Append(data, item), 1, Len(data) + 1, item)

\* BinaryHeap::pop (bench main.rs 174): the vector after the greatest element
\* has been removed.
HeapPop(data) ==
    LET last == data[Len(data)]
        rest == SubSeq(data, 1, Len(data) - 1)
    IN  IF Len(rest) = 0 THEN rest ELSE SiftDownToBottom(rest, 1, 1, last)

\* Faulty variant: the push is never followed by a pop.
PushNoEvict(data, item) == HeapPush(data, item)

\* bench main.rs 172-175: push, then pop once the heap holds more than TOP_K.
PushEvict(data, item) ==
    LET pushed == HeapPush(data, item)
    IN  IF Len(pushed) > TOP_K THEN HeapPop(pushed) ELSE pushed

\* bench main.rs 180-181: the heap's vector, sorted by descending score.
DrainSorted(data) == SortBy(data, LAMBDA a, b : a[1] > b[1])

\* Faulty variant: the count is retained in the second iteration instead of the first.
RecordMatchCountSecond(counts, it, q, mc) ==
    IF it = 1 THEN [counts EXCEPT ![q] = mc] ELSE counts

\* bench main.rs 186-188.
RecordMatchCount(counts, it, q, mc) ==
    IF it = 0 THEN [counts EXCEPT ![q] = mc] ELSE counts

-----------------------------------------------------------------------------
(* Bench tool: the timed iterations *)

\* The durations, in ms, a query can take, and the time an iteration can
\* take beyond its queries.
QueryTimes == {1, 2}
Overheads == {0, 1}

\* bench main.rs 148-150: the loop over 0..iterations enters an iteration.
IterBegin ==
    /\ tool = "bench" /\ pc = "iter_head"
    /\ iter < iterations
    /\ qi' = 0
    /\ pc' = "query_head"
    /\ UNCHANGED <<qualVars, tool, loadVars, scorer, benchIn, iterations, wq, iter, benchScan,
                   top_results, benchStore, report>>

\* bench main.rs 152-165: the next query selects its candidates and starts
\* with an empty heap.
QueryBegin ==
    /\ tool = "bench" /\ pc = "query_head"
    /\ qi < Len(queries)
    /\ candidates' = SelectCandidates(queries[qi + 1].field)
    /\ match_count' = 0
    /\ heap' = <<>>
    /\ ci' = 0
    /\ pc' = "scan"
    /\ UNCHANGED <<qualVars, tool, loadVars, scorer, benchIn, iterations, wq, iter, qi,
                   top_results, benchStore, report>>

\* bench main.rs 167-177: one candidate is scored, counted and pushed.
ScoreCandidate ==
    /\ tool = "bench" /\ pc = "scan"
    /\ ci < Len(candidates)
    /\ LET score == Score(queries[qi + 1].text, candidates[ci + 1])
       IN  IF score # None
           THEN /\ match_count' = match_count + 1
                /\ heap' = PushEvict(heap, <<score[1], ci>>)
           ELSE UNCHANGED <<match_count, heap>>
    /\ ci' = ci + 1
    /\ UNCHANGED <<qualVars, tool, pc, loadVars, scorer, benchIn, iterations, wq, iter, qi,
                   candidates, top_results, benchStore, report>>

\* bench main.rs 180-188: the scan is over; the heap is drained and ranked,
\* the elapsed time recorded, the first iteration's match count retained.
QueryEnd ==
    /\ tool = "bench" /\ pc = "scan"
    /\ ci = Len(candidates)
    /\ top_results' = DrainSorted(heap)
    /\ \E q_ms \in QueryTimes :
          query_timings_ms' = [query_timings_ms EXCEPT ![qi + 1] = Append(@, q_ms)]
    /\ query_match_counts' = RecordMatchCount(query_match_counts, iter, qi + 1, match_count)
    /\ count_log' = count_log \cup {<<iter, qi + 1, match_count>>}
    /\ qi' = qi + 1
    /\ pc' = "query_head"
    /\ UNCHANGED <<qualVars, tool, loadVars, scorer, benchIn, iterations, wq, iter, benchScan,
                   iteration_totals_ms, report>>

\* bench main.rs 191-194: the iteration's total is at least the time of its
\* queries.
IterEnd ==
    /\ tool = "bench" /\ pc = "query_head"
    /\ qi = Len(queries)
    /\ \E slack \in Overheads :
          iteration_totals_ms' =
              Append(iteration_totals_ms,
                     SumSeq([q \in 1..Len(queries) |-> Last(query_timings_ms[q])]) + slack)
    /\ iter' = iter + 1
    /\ pc' = "iter_head"
    /\ UNCHANGED <<qualVars, tool, loadVars, scorer, benchIn, iterations, wq, qi, benchScan,
                   top_results, query_timings_ms, query_match_counts, count_log, report>>

-----------------------------------------------------------------------------
(* Bench tool: the results stage *)

\* bench main.rs 227-237.
preferred_categories ==
    <<"exact_symbol", "exact_name", "exact_isin", "prefix", "typo", "substring",
      "multi_word", "symbol_spaces", "abbreviation">>

\* v[idx] of a Rust vector: idx counts from 0.
At(v, index) == v[index + 1]

\* sort_by(|a, b| a.partial_cmp(b).unwrap()): ascending.
SortedAscending(timings) == SortBy(timings, LAMBDA a, b : a < b)

\* Faulty variant: the lower of the two middle values when n is even.
MedianTotalLower(totals, n) == At(SortedAscending(totals), (n - 1) \div 2)

\* bench main.rs 202-204: the median of the iteration totals.
MedianTotal(totals, n) == At(SortedAscending(totals), n \div 2)

\* bench main.rs 266-269: a query's median in the per-category sum.
CategoryMedian(timings, n) == At(SortedAscending(timings), n \div 2)

\* bench main.rs 305-309 and 316-318: a query's median in the detail table.
DetailMedian(timings, n) == At(SortedAscending(timings), n \div 2)

\* bench main.rs 275-279: reduce(f64::min).
MinOf(timings) == CHOOSE m \in { timings[k] : k \in 1..Len(timings) } :
                      \A k \in 1..Len(timings) : m <= timings[k]

\* bench main.rs 239-245: the preferred categories some query carries.
PresentCategories ==
    LET keep == SelectSeqIdx(preferred_categories,
                             LAMBDA c : \E q \in 1..Len(queries) : queries[q].category = c)
    IN  [k \in 1..Len(keep) |-> preferred_categories[keep[k]]]

\* bench main.rs 253-292: one line of the per-category table.
CategoryLine(cat) ==
    LET indices == SelectSeqIdx(queries, LAMBDA q : q.category = cat)
    IN  [category |-> cat,
         queries |-> Len(indices),
         total_median |->
             SumSeq([k \in 1..Len(indices) |->
                        CategoryMedian(query_timings_ms[indices[k]], iterations)]),
         total_min |->
             SumSeq([k \in 1..Len(indices) |-> MinOf(query_timings_ms[indices[k]])]),
         total_matches |->
             SumSeq([k \in 1..Len(indices) |-> query_match_counts[indices[k]]])]

\* bench main.rs 303-329: the detail table, by descending median.
DetailLines ==
    LET sorted_indices ==
            SortBy([q \in 1..Len(queries) |-> q],
                   LAMBDA a, b : DetailMedian(query_timings_ms[a], iterations)
                                   > DetailMedian(query_timings_ms[b], iterations))
    IN  [k \in 1..Len(queries) |->
            LET q == sorted_indices[k]
            IN  [query |-> q,
                 field |-> queries[q].field,
                 category |-> queries[q].category,
                 med |-> DetailMedian(query_timings_ms[q], iterations),
                 mn |-> At(SortedAscending(query_timings_ms[q]), 0),
                 matches |-> query_match_counts[q]]]

NoReport ==
    [median_total |-> 0, min_total |-> 0, max_total |-> 0,
     categories |-> <<>>, detail |-> <<>>]

\* bench main.rs 197-329: the report, or the panic of an index that is out of
\* range (the first one is sorted_totals[iterations / 2] at line 204).
Results ==
    /\ tool = "bench" /\ pc = "iter_head"
    /\ iter = iterations
    /\ IF \/ iterations \div 2 >= Len(iteration_totals_ms)
          \/ \E q \in 1..Len(queries) : iterations \div 2 >= Len(query_timings_ms[q])
       THEN /\ pc' = "panicked"
            /\ UNCHANGED report
       ELSE /\ pc' = "done"
            /\ report' =
                 [median_total |-> MedianTotal(iteration_totals_ms, iterations),
                  min_total |-> At(SortedAscending(iteration_totals_ms), 0),
                  max_total |-> At(SortedAscending(iteration_totals_ms), iterations - 1),
                  categories |->
                      [k \in 1..Len(PresentCategories) |-> CategoryLine(PresentCategories[k])],
                  detail |-> DetailLines]
    /\ UNCHANGED <<qualVars, tool, loadVars, scorer, benchIn, iterations, wq, iter, qi, benchScan,
                   top_results, benchStore>>

NextBench ==
    ParseIterations \/ WarmupQuery \/ WarmupDone \/ IterBegin \/ QueryBegin
        \/ ScoreCandidate \/ QueryEnd \/ IterEnd \/ Results

-----------------------------------------------------------------------------
(* Quality tool: one answer per input line *)

TAKE_COUNT == 10

\* str::splitn(2, sep): the text before the first separator and the whole
\* rest after it; one piece when there is no separator.
SplitN2(s, sep) ==
    IF \E k \in 1..Len(s) : s[k] = sep
    THEN LET first == CHOOSE k \in 1..Len(s) :
                          s[k] = sep /\ \A m \in 1..(k - 1) : s[m] # sep
         IN  <<SubSeq(s, 1, first - 1), SubSeq(s, first + 1, Len(s))>>
    ELSE <<s>>

\* quality main.rs 52-58.
SelectCandidate(inst, f) ==
    IF f = SYMBOL THEN inst.symbol
    ELSE IF f = ISIN THEN inst.isin
    ELSE inst.name

\* quality main.rs 67: descending by score, equal scores in scan order.
SortResults(rs) == SortBy(rs, LAMBDA a, b : a[1] > b[1])

\* Faulty variant: one row more than asked for.
TakeOneMore(rs, n) == SubSeq(rs, 1, IF Len(rs) < n + 1 THEN Len(rs) ELSE n + 1)

\* quality main.rs 69: iter().take(10).
Take(rs, n) == SubSeq(rs, 1, IF Len(rs) < n THEN Len(rs) ELSE n)

\* quality main.rs 69-80: the rows of one answer; rank counts from 1.
PrintedRows(rs, q, f, line) ==
    LET top == Take(SortResults(rs), TAKE_COUNT)
    IN  [rank \in 1..Len(top) |->
            [line |-> line,
             query |-> q,
             field |-> f,
             rank |-> rank,
             score |-> top[rank][1],
             symbol |-> instruments[top[rank][2] + 1].symbol,
             name |-> instruments[top[rank][2] + 1].name]]

\* quality main.rs 37-49: the next line is read; a line without a tab is
\* passed over.
ReadLine ==
    /\ tool = "quality" /\ pc = "q_read"
    /\ line_no < Len(stdin)
    /\ line_no' = line_no + 1
    /\ LET parts == SplitN2(stdin[line_no + 1], TAB)
       IN  IF Len(parts) # 2
           THEN UNCHANGED <<pc, query, field, idx, results>>
           ELSE /\ query' = parts[1]
                /\ field' = parts[2]
                /\ results' = <<>>
                /\ idx' = 0
                /\ pc' = "q_scan"
    /\ UNCHANGED <<tool, loadVars, scorer, benchVars, stdin, candidate, stdout, answered>>

\* quality main.rs 51-65: one instrument is scored on the selected column.
ScoreInstrument ==
    /\ tool = "quality" /\ pc = "q_scan"
    /\ idx < Len(instruments)
    /\ candidate' = SelectCandidate(instruments[idx + 1], field)
    /\ LET score == Score(query, candidate')
       IN  results' = IF score # None THEN Append(results, <<score[1], idx>>) ELSE results
    /\ idx' = idx + 1
    /\ UNCHANGED <<tool, pc, loadVars, scorer, benchVars, stdin, line_no, query, field,
                   stdout, answered>>

\* quality main.rs 67-80: the results are sorted and the first 10 printed.
PrintRows ==
    /\ tool = "quality" /\ pc = "q_scan"
    /\ idx = Len(instruments)
    /\ stdout' = stdout \o PrintedRows(results, query, field, line_no)
    /\ answered' = answered \cup {line_no}
    /\ pc' = "q_read"
    /\ UNCHANGED <<tool, loadVars, scorer, benchVars, stdin, line_no, query, field, idx,
                   candidate, results>>

\* quality main.rs 37, 81-82: the input is exhausted and main returns.
EndOfInput ==
    /\ tool = "quality" /\ pc = "q_read"
    /\ line_no = Len(stdin)
    /\ pc' = "q_done"
    /\ UNCHANGED <<tool, loadVars, scorer, benchVars, qualVars>>

NextQuality == ReadLine \/ ScoreInstrument \/ PrintRows \/ EndOfInput

-----------------------------------------------------------------------------
(* Inputs of the bench tool *)

RECURSIVE Decimal(_)
\* The decimal digits of n.
Decimal(n) ==
    LET d == <<"0", "1", "2", "3", "4", "5", "6", "7", "8", "9">>[(n % 10) + 1]
    IN  IF n < 10 THEN <<d>> ELSE Append(Decimal(n \div 10), d)

\* A loaded corpus of n instruments with pairwise different columns.
Corpus(n) ==
    [k \in 1..n |-> [symbol |-> <<"S">> \o Decimal(k),
                     name |-> <<"N">> \o Decimal(k),
                     isin |-> <<"I">> \o Decimal(k)]]

Haystacks(insts) ==
    UNION { {insts[k].symbol, insts[k].name, insts[k].isin} : k \in 1..Len(insts) }

QueryText == <<"q">>

\* The values of the unused variables of a run.
LoadIdle ==
    /\ content = <<>>
    /\ rows = <<>>
    /\ i = 0

QualityIdle ==
    /\ stdin = <<>>
    /\ line_no = 0
    /\ query = <<>>
    /\ field = <<>>
    /\ idx = 0
    /\ candidate = <<>>
    /\ results = <<>>
    /\ stdout = <<>>
    /\ answered = {}

BenchIdle ==
    /\ args = <<>>
    /\ queries = <<>>
    /\ iterations = 0
    /\ wq = 0
    /\ iter = 0
    /\ qi = 0
    /\ ci = 0
    /\ candidates = <<>>
    /\ match_count = 0
    /\ heap = <<>>
    /\ top_results = <<>>
    /\ query_timings_ms = <<>>
    /\ query_match_counts = <<>>
    /\ iteration_totals_ms = <<>>
    /\ report = NoReport
    /\ count_log = {}

\* The bench tool after the query file and the corpus are loaded (main.rs 98).
BenchLoaded ==
    /\ tool = "bench"
    /\ pc = "parse_iterations"
    /\ LoadIdle
    /\ QualityIdle
    /\ iterations = 0
    /\ wq = 0
    /\ iter = 0
    /\ qi = 0
    /\ ci = 0
    /\ candidates = <<>>
    /\ match_count = 0
    /\ heap = <<>>
    /\ top_results = <<>>
    /\ query_timings_ms = <<>>
    /\ query_match_counts = <<>>
    /\ iteration_totals_ms = <<>>
    /\ report = NoReport
    /\ count_log = {}

MaxWork == 4
MaxQueries == 2
MaxCorpus == 2

IterationValues ==
    { <<"0">>, <<"1">>, <<"2">>, <<"3">>, <<"4">>, <<"+", "2">>,
      <<"-", "1">>, <<"x">>, <<>> }

ArgLists ==
    { <<>>, <<FLAG_ITERATIONS>> } \cup { <<FLAG_ITERATIONS, v>> : v \in IterationValues }

BenchQueries ==
    { [text |-> QueryText, field |-> f, category |-> c] :
        f \in {SYMBOL, NAME}, c \in {"typo", "other"} }

QueryFiles(qs, n) == UNION { [1..m -> qs] : m \in 0..n }

\* The text of an instrument a field names, as the documentation of the
\* tools states it.
FieldText(inst, f) ==
    IF f = SYMBOL THEN inst.symbol
    ELSE IF f = ISIN THEN inst.isin
    ELSE inst.name

\* The haystacks the queries of a run can put before the scorer.
UsedHaystacks(insts, fields) ==
    { FieldText(insts[k], f) : k \in 1..Len(insts), f \in fields }

\* Scoring functions that answer None or one of scores on the used haystacks.
Scorers(insts, fields, scores) ==
    { [p \in {QueryText} \X Haystacks(insts) |->
          IF p[2] \in DOMAIN f THEN f[p[2]] ELSE None] :
        f \in [UsedHaystacks(insts, fields) -> {None} \cup { Some(s) : s \in scores }] }

InitBench ==
    /\ BenchLoaded
    /\ args \in ArgLists
    /\ queries \in QueryFiles(BenchQueries, MaxQueries)
    /\ IterationsArg(args) # None => IterationsArg(args)[1] * Len(queries) <= MaxWork
    /\ \E n \in 0..MaxCorpus : instruments = Corpus(n)
    /\ scorer \in Scorers(instruments, { queries[q].field : q \in 1..Len(queries) }, {7})

SpecBench == InitBench /\ [][NextBench]_vars

-----------------------------------------------------------------------------
(* Inputs that fill the top-K heap: corpora of about TOP_K instruments *)

MaxExtra == 2
TailLen == 2

Shapes == {"flat", "up", "down", "mix", "gaps"}

TailScores == {None, Some(5), Some(900)}

\* The score of the k-th of n candidates: a regular shape, except for the
\* last TailLen candidates, whose scores are tail[1], tail[2], ...
ShapedScore(shape, tail, n, k) ==
    IF k > n - TailLen THEN tail[k - (n - TailLen)]
    ELSE CASE shape = "flat" -> Some(5)
           [] shape = "up" -> Some(k + 1)
           [] shape = "down" -> Some(n - k + 2)
           [] shape = "mix" -> Some(((k * 7) % 5) + 3)
           [] shape = "gaps" -> IF k = n \div 2 THEN None ELSE Some((k % 3) + 4)

\* The scoring function that gives the name column the shaped scores, the
\* symbol column the same scores in reverse order, and the isin column none.
ShapedScorer(insts, shape, tail) ==
    [p \in {QueryText} \X Haystacks(insts) |->
        LET k == DecimalValue(Tail(p[2]), 0)
        IN  IF p[2][1] = "N" THEN ShapedScore(shape, tail, Len(insts), k)
            ELSE IF p[2][1] = "S" THEN ShapedScore(shape, tail, Len(insts), Len(insts) + 1 - k)
            ELSE None]

InitTopK ==
    /\ BenchLoaded
    /\ args = <<FLAG_ITERATIONS, <<"1">> >>
    /\ queries = << [text |-> QueryText, field |-> NAME, category |-> "typo"] >>
    /\ \E n \in (TOP_K - 1)..(TOP_K + MaxExtra) : instruments = Corpus(n)
    /\ \E shape \in Shapes, tail \in [1..TailLen -> TailScores] :
          scorer = ShapedScorer(instruments, shape, tail)

SpecTopK == InitTopK /\ [][NextBench]_vars

-----------------------------------------------------------------------------
(* Inputs of the quality tool *)

MaxInput == 2

InputLine(q, f) == q \o <<TAB>> \o f

\* The quality tool after the corpus is loaded (main.rs 35).
QualityLoaded ==
    /\ tool = "quality"
    /\ pc = "q_read"
    /\ LoadIdle
    /\ BenchIdle
    /\ line_no = 0
    /\ query = <<>>
    /\ field = <<>>
    /\ idx = 0
    /\ candidate = <<>>
    /\ results = <<>>
    /\ stdout = <<>>
    /\ answered = {}

QualityLines == { InputLine(QueryText, SYMBOL), InputLine(QueryText, NAME), QueryText }

InputFiles(lines, n) == UNION { [1..m -> lines] : m \in 0..n }

\* Inputs in which no line is given twice: a line is answered from the
\* corpus and the line alone, so a repeated line repeats its rows.
InputFilesOnce(lines, n) ==
    { f \in InputFiles(lines, n) : \A a, b \in 1..Len(f) : f[a] = f[b] => a = b }

InitQuality ==
    /\ QualityLoaded
    /\ stdin \in InputFilesOnce(QualityLines, MaxInput)
    /\ \E n \in (TAKE_COUNT - 1)..(TAKE_COUNT + MaxExtra) : instruments = Corpus(n)
    /\ \E shape \in Shapes, tail \in [1..TailLen -> TailScores] :
          scorer = ShapedScorer(instruments, shape, tail)

SpecQuality == InitQuality /\ [][NextQuality]_vars

-----------------------------------------------------------------------------
(* Inputs that vary the field text, for both tools *)

\* Field texts: the three names, the empty text, another letter case and
\* an extra character.
FieldTexts ==
    { SYMBOL, ISIN, NAME, <<>>,
      <<"S", "y", "m", "b", "o", "l">>,
      <<"i", "s", "i", "n", " ">> }

\* A field text with a tab in it: the rest of an input line of the quality
\* tool after its first tab.
FieldWithTab == SYMBOL \o <<TAB, "x">>

InitFieldsBench ==
    /\ BenchLoaded
    /\ args = <<FLAG_ITERATIONS, <<"1">> >>
    /\ queries \in QueryFiles({ [text |-> QueryText, field |-> f, category |-> "typo"] :
                                  f \in FieldTexts }, MaxQueries)
    /\ instruments = Corpus(MaxCorpus)
    /\ \E tail \in [1..TailLen -> TailScores] :
          scorer = ShapedScorer(instruments, "flat", tail)

InitFieldsQuality ==
    /\ QualityLoaded
    /\ stdin \in InputFiles({ InputLine(QueryText, f) : f \in FieldTexts \cup {FieldWithTab} }
                               \cup {QueryText, <<>>}, MaxInput)
    /\ instruments = Corpus(MaxCorpus)
    /\ \E tail \in [1..TailLen -> TailScores] :
          scorer = ShapedScorer(instruments, "flat", tail)

InitFields == InitFieldsBench \/ InitFieldsQuality

NextFields == NextBench \/ NextQuality

SpecFields == InitFields /\ [][NextFields]_vars

-----------------------------------------------------------------------------
(* Corpus files the loader is run on *)

MaxLines == 5

\* Rows as lists of columns: an empty line, a 1-column header, a 2-column
\* row, a 3-column row, and a 4-column row with an empty second column.
RowTemplates ==
    { << <<>> >>,
      << <<"H">> >>,
      << <<"a">>, <<"b">> >>,
      << <<"x">>, <<"y", "y">>, <<"z">> >>,
      << <<"s">>, <<>>, <<"i">>, <<"e">> >> }

RECURSIVE JoinWith(_, _)
JoinWith(pieces, sep) ==
    IF Len(pieces) = 0 THEN <<>>
    ELSE IF Len(pieces) = 1 THEN pieces[1]
    ELSE pieces[1] \o <<sep>> \o JoinWith(Tail(pieces), sep)

\* The file text of a list of rows; the last row's line feed is optional.
FileText(rs, terminated) ==
    LET body == JoinWith([k \in 1..Len(rs) |-> JoinWith(rs[k], TAB)], NL)
    IN  IF terminated /\ Len(rs) > 0 THEN Append(body, NL) ELSE body

RowFiles ==
    UNION { [1..n -> RowTemplates] : n \in 0..MaxLines }

-----------------------------------------------------------------------------
(* Corpus loader: the same loop in both tools *)

\* Faulty variant: a row needs more than 3 columns.
BenchPushLineOver3(insts, line) ==
    LET cols == Split(line, TAB)
    IN  IF Len(cols) > 3
        THEN Append(insts, [symbol |-> cols[1], name |-> cols[2], isin |-> cols[3]])
        ELSE insts

\* bench main.rs 82-89: split the line on tabs, push when >= 3 columns.
BenchPushLine(insts, line) ==
    LET cols == Split(line, TAB)
    IN  IF Len(cols) >= 3
        THEN Append(insts, [symbol |-> cols[1], name |-> cols[2], isin |-> cols[3]])
        ELSE insts

\* Faulty variant: a row with 2 columns is loaded as well.
QualityPushLineFrom2(insts, line) ==
    LET cols == Split(line, TAB) \o << <<>> >>
    IN  IF Len(cols) >= 3
        THEN Append(insts, [symbol |-> cols[1], name |-> cols[2], isin |-> cols[3]])
        ELSE insts

\* quality main.rs 24-31.
QualityPushLine(insts, line) ==
    LET cols == Split(line, TAB)
    IN  IF Len(cols) >= 3
        THEN Append(insts, [symbol |-> cols[1], name |-> cols[2], isin |-> cols[3]])
        ELSE insts

\* bench main.rs 78-90: one turn of the loop over content.lines().enumerate().
BenchLoadLine ==
    /\ tool = "bench" /\ pc = "load"
    /\ i < Len(Lines(content))
    /\ instruments' = IF i = 0 THEN instruments
                      ELSE BenchPushLine(instruments, Lines(content)[i + 1])
    /\ i' = i + 1
    /\ UNCHANGED <<qualVars, tool, pc, content, rows, scorer, benchVars>>

\* quality main.rs 20-32.
QualityLoadLine ==
    /\ tool = "quality" /\ pc = "load"
    /\ i < Len(Lines(content))
    /\ instruments' = IF i = 0 THEN instruments
                      ELSE QualityPushLine(instruments, Lines(content)[i + 1])
    /\ i' = i + 1
    /\ UNCHANGED <<qualVars, tool, pc, content, rows, scorer, benchVars>>

\* The loop is over: bench main.rs 91, quality main.rs 34.
LoadDone ==
    /\ pc = "load"
    /\ i = Len(Lines(content))
    /\ pc' = "loaded"
    /\ UNCHANGED <<qualVars, tool, loadVars, scorer, benchVars>>

InitLoad ==
    /\ tool \in {"bench", "quality"}
    /\ pc = "load"
    /\ rows \in RowFiles
    /\ \E terminated \in BOOLEAN :
          /\ Len(rows) = 0 => ~terminated
          /\ (~terminated /\ Len(rows) > 0) => Last(rows) # << <<>> >>
          /\ content = FileText(rows, terminated)
    /\ i = 0
    /\ instruments = <<>>
    /\ scorer = <<>>
    /\ BenchIdle
    /\ QualityIdle

NextLoad == BenchLoadLine \/ QualityLoadLine \/ LoadDone

SpecLoad == InitLoad /\ [][NextLoad]_vars

-----------------------------------------------------------------------------
(* Claims about the corpus loader, under SpecLoad *)

\* The rows of the file that are not the first one and have >= 3 columns.
DataRows ==
    LET keep == SelectSeqIdx(rows, LAMBDA r : Len(r) >= 3)
        data == SelectSeq(keep, LAMBDA k : k > 1)
    IN  [k \in 1..Len(data) |-> rows[data[k]]]

HeaderLines == IF Len(rows) > 0 THEN 1 ELSE 0

MalformedLines == Cardinality({ k \in 2..Len(rows) : Len(rows[k]) < 3 })

\* C4: once the loader has run, the instruments are, in line order, one per
\* line that is not the first line and has at least 3 tab-separated columns,
\* with symbol, name and isin taken from columns 1, 2 and 3; so their number
\* is the number of lines, minus the header line, minus the later lines with
\* fewer than 3 columns.
C4_LoaderKeepsWellFormedRows ==
    pc = "loaded" =>
        /\ Len(Lines(content)) = Len(rows)
        /\ Len(instruments) = Len(DataRows)
        /\ \A k \in 1..Len(instruments) :
              /\ instruments[k].symbol = DataRows[k][1]
              /\ instruments[k].name = DataRows[k][2]
              /\ instruments[k].isin = DataRows[k][3]
        /\ Len(instruments) = Len(rows) - HeaderLines - MalformedLines

\* A loaded file with an empty line, a short line and a 4-column line after
\* the header, and with two rows kept.
C4_Witness ==
    /\ pc = "loaded"
    /\ Len(rows) = MaxLines
    /\ Len(rows[1]) >= 3
    /\ \E k \in 2..Len(rows) : rows[k] = << <<>> >>
    /\ \E k \in 2..Len(rows) : Len(rows[k]) = 2
    /\ \E k \in 2..Len(rows) : Len(rows[k]) = 4
    /\ Len(instruments) = 2
    /\ instruments[1] # instruments[2]

\* A header line, 3 data rows and 1 malformed row of 2 columns.
HeaderThreeDataOneMalformed ==
    /\ Len(rows) = 5
    /\ rows[1] = << <<"H">> >>
    /\ Cardinality({ k \in 2..5 : Len(rows[k]) >= 3 }) = 3
    /\ Cardinality({ k \in 2..5 : Len(rows[k]) = 2 }) = 1

\* C9 as stated: such a corpus yields exactly 2 loaded instruments.
C9_AsStated ==
    (pc = "loaded" /\ HeaderThreeDataOneMalformed) => Len(instruments) = 2

\* C9 amended: a header line, 3 data rows and 1 malformed 2-column row yield
\* exactly 3 loaded instruments.
C9_ThreeLoaded ==
    (pc = "loaded" /\ HeaderThreeDataOneMalformed) => Len(instruments) = 3

C9_Witness ==
    /\ pc = "loaded"
    /\ HeaderThreeDataOneMalformed
    /\ Len(rows[3]) = 2
    /\ Len(instruments) = 3

-----------------------------------------------------------------------------
(* Claims about the bench tool's top-K selection, under SpecTopK *)

\* The scores the matcher returns for query q, candidate by candidate.
ScoresOf(q) ==
    [k \in 1..Len(instruments) |->
        Score(queries[q].text, FieldText(instruments[k], queries[q].field))]

\* The candidates (counted from 1) the matcher returns a score for.
MatchedOf(q) == { k \in 1..Len(instruments) : ScoresOf(q)[k] # None }

Min2(a, b) == IF a <= b THEN a ELSE b

\* C1: after every push-and-evict step the heap holds at most TOP_K entries,
\* and so does the ranked list, while the match count is the number of
\* candidates the matcher returned a score for, also beyond TOP_K, in the
\* running scan, in the stored counts and in the printed detail table.
C1_HeapBoundedCountUncapped ==
    tool = "bench" =>
        /\ Len(heap) <= TOP_K
        /\ Len(top_results) <= TOP_K
        /\ pc = "scan" =>
              match_count = Cardinality({ k \in MatchedOf(qi + 1) : k <= ci })
        /\ pc = "done" =>
              /\ \A q \in 1..Len(queries) :
                    query_match_counts[q] = Cardinality(MatchedOf(q))
              /\ \A r \in 1..Len(report.detail) :
                    report.detail[r].matches = Cardinality(MatchedOf(report.detail[r].query))

\* The report of a query with more than TOP_K matches, after a full heap.
C1_Witness ==
    /\ pc = "done"
    /\ Len(top_results) = TOP_K
    /\ \E r \in 1..Len(report.detail) : report.detail[r].matches > TOP_K + 1

\* C2: when the scan of a query is over, the ranked list has min(TOP_K,
\* matches) entries, each a scored candidate with its score, no candidate
\* twice; its j-th score is the j-th highest score of all scored candidates,
\* so the list is in non-increasing score order and no candidate left out
\* has a higher score than one in the list.
C2_RankedListIsTopK ==
    (tool = "bench" /\ pc = "query_head" /\ qi > 0) =>
        \A sc \in {ScoresOf(qi)}, matched \in {MatchedOf(qi)} :
        LET n == Len(top_results)
            listed == { top_results[j][2] + 1 : j \in 1..n }
        IN  /\ n = Min2(TOP_K, Cardinality(matched))
            /\ \A j \in 1..n :
                  /\ top_results[j][2] + 1 \in matched
                  /\ sc[top_results[j][2] + 1] = Some(top_results[j][1])
            /\ Cardinality(listed) = n
            /\ \A j \in 1..n :
                  LET v == top_results[j][1]
                  IN  /\ Cardinality({ k \in matched : sc[k][1] > v }) < j
                      /\ j <= Cardinality({ k \in matched : sc[k][1] >= v })
            /\ \A j \in 1..(n - 1) : top_results[j][1] >= top_results[j + 1][1]
            /\ \A k \in matched \ listed : \A j \in 1..n : sc[k][1] <= top_results[j][1]

\* A finished scan with more than TOP_K matches, several scores in the list
\* and a candidate left out that ties with the last entry.
C2_Witness ==
    /\ tool = "bench" /\ pc = "query_head" /\ qi > 0
    /\ Cardinality(MatchedOf(qi)) > TOP_K
    /\ Len(top_results) = TOP_K
    /\ top_results[1][1] > top_results[TOP_K][1]
    /\ \E k \in MatchedOf(qi) :
          /\ \A j \in 1..TOP_K : top_results[j][2] + 1 # k
          /\ ScoresOf(qi)[k] = Some(top_results[TOP_K][1])

-----------------------------------------------------------------------------
(* Claims about the bench tool's iterations and report, under SpecBench *)

\* m is the value at index n / 2 (counting from 0) of the ascending order of
\* timings: at most n / 2 values lie below it and more than n / 2 do not
\* exceed it.
IsUpperMedian(m, timings, n) ==
    /\ \E j \in 1..Len(timings) : timings[j] = m
    /\ Cardinality({ j \in 1..Len(timings) : timings[j] < m }) <= n \div 2
    /\ Cardinality({ j \in 1..Len(timings) : timings[j] <= m }) > n \div 2

RECURSIVE SumOver(_, _)
\* The sum of f over the set S.
SumOver(f, S) ==
    IF S = {} THEN 0
    ELSE LET x == CHOOSE x \in S : TRUE IN f[x] + SumOver(f, S \ {x})

UpperMedian(timings, n) ==
    CHOOSE m \in { timings[j] : j \in 1..Len(timings) } : IsUpperMedian(m, timings, n)

\* C5: when the report is computed every query has exactly n timings and
\* there are n iteration totals; for n >= 1 the report is printed, and each
\* median in it (of the totals, of a query in its category's sum, of a query
\* in the detail table) is the value at index n / 2 of the sorted timings.
C5_MedianIsUpperMiddle ==
    tool = "bench" =>
        /\ ((pc = "iter_head" /\ iter = iterations) \/ pc \in {"done", "panicked"}) =>
              /\ Len(iteration_totals_ms) = iterations
              /\ \A q \in 1..Len(queries) : Len(query_timings_ms[q]) = iterations
        /\ (pc = "panicked") => iterations < 1
        /\ pc = "done" =>
              /\ iterations >= 1
              /\ IsUpperMedian(report.median_total, iteration_totals_ms, iterations)
              /\ \A r \in 1..Len(report.detail) :
                    IsUpperMedian(report.detail[r].med,
                                  query_timings_ms[report.detail[r].query], iterations)
              /\ Len(report.detail) = Len(queries)
              /\ \A c \in 1..Len(report.categories) :
                    LET members == { q \in 1..Len(queries) :
                                       queries[q].category = report.categories[c].category }
                        medians == [q \in members |->
                                       UpperMedian(query_timings_ms[q], iterations)]
                    IN  report.categories[c].total_median = SumOver(medians, members)

\* A report over 4 iterations where a query's two middle timings differ and
\* the upper one is printed, in the detail table and in a category line.
C5_Witness ==
    /\ pc = "done"
    /\ iterations = 4
    /\ \E r \in 1..Len(report.detail) :
          LET t == query_timings_ms[report.detail[r].query]
          IN  /\ Cardinality({ j \in 1..4 : t[j] < report.detail[r].med }) = 2
              /\ Cardinality({ j \in 1..4 : t[j] = report.detail[r].med }) = 2
    /\ Len(report.categories) = 1
    /\ Cardinality({ j \in 1..4 : iteration_totals_ms[j] < report.median_total }) = 2

\* C7: the match count kept for a query is the one of the first timed
\* iteration, no later iteration changes it, every iteration of the query
\* counts the same matches, and the report prints that count.
C7_MatchCountOfFirstIteration ==
    tool = "bench" =>
        /\ \A e \in count_log : query_match_counts[e[2]] = e[3]
        /\ pc = "done" =>
              \A r \in 1..Len(report.detail) : \A e \in count_log :
                  e[2] = report.detail[r].query => report.detail[r].matches = e[3]

\* The fourth of 4 iterations has counted the matches of a query that has
\* some, and the report is printed.
C7_Witness ==
    /\ pc = "done"
    /\ iterations = 4
    /\ \E e \in count_log : e[1] = 3 /\ e[3] > 0

\* The text of a positive integer: decimal digits, not all of them 0, after
\* an optional plus sign.
IsPositiveInteger(v) ==
    LET d == IF Len(v) > 0 /\ v[1] = "+" THEN Tail(v) ELSE v
    IN  /\ Len(d) > 0
        /\ \A k \in 1..Len(d) : d[k] \in Digits
        /\ \E k \in 1..Len(d) : d[k] # "0"

\* C8 as stated: with --iterations given without a value, or with a value
\* that is no positive integer, the run aborts at the argument and reaches
\* neither the warmup nor the iterations nor the results; the results stage
\* is reached with iterations >= 1 only.
C8_AsStated ==
    tool = "bench" =>
        /\ LET at == Position(args, FLAG_ITERATIONS)
           IN  (at > 0 /\ (at + 1 > Len(args) \/ ~IsPositiveInteger(args[at + 1])))
                   => pc \in {"parse_iterations", "aborted"}
        /\ ((pc = "iter_head" /\ iter = iterations) \/ pc \in {"done", "panicked"})
               => iterations >= 1

-----------------------------------------------------------------------------
(* Claims about the quality tool's answers, under SpecQuality *)

AllFieldTexts == FieldTexts \cup {FieldWithTab}

\* The query and the field an input line with a tab was written from.
LineParts(n) ==
    CHOOSE p \in {QueryText} \X AllFieldTexts : InputLine(p[1], p[2]) = stdin[n]

\* The rows printed for input line n, in print order.
RowsOf(n) == SelectSeq(stdout, LAMBDA r : r.line = n)

\* The instruments the matcher returns a score for on input line n.
MatchesOfLine(n) ==
    { k \in 1..Len(instruments) :
        Score(LineParts(n)[1], FieldText(instruments[k], LineParts(n)[2])) # None }

\* What C6 says of the rows of an answered line, but for their order.
RowsWellFormed(n) ==
    LET rs == RowsOf(n)
    IN  /\ Len(rs) <= 10
        /\ Len(rs) = Min2(10, Cardinality(MatchesOfLine(n)))
        /\ \A j \in 1..Len(rs) :
              /\ rs[j].rank = j
              /\ rs[j].query = LineParts(n)[1]
              /\ rs[j].field = LineParts(n)[2]
              /\ \E k \in MatchesOfLine(n) :
                    /\ rs[j].symbol = instruments[k].symbol
                    /\ rs[j].name = instruments[k].name
                    /\ Score(rs[j].query, FieldText(instruments[k], rs[j].field))
                          = Some(rs[j].score)

\* C6 as stated: the rows of a line number at most 10, exactly min(10,
\* matches), are ranked 1, 2, ... without a gap, carry scores the matcher
\* returned for the instrument shown, and every row's score is strictly
\* higher than the next row's.
C6_AsStated ==
    tool = "quality" =>
        /\ \A r \in 1..Len(stdout) : stdout[r].line \in answered
        /\ \A n \in answered :
              /\ RowsWellFormed(n)
              /\ \A j \in 1..(Len(RowsOf(n)) - 1) :
                    RowsOf(n)[j].score > RowsOf(n)[j + 1].score

\* C6 amended: as stated, except that the rows are in non-increasing score
\* order: no row's score is lower than the next row's, and rows with equal
\* scores follow each other.
C6_RowsRankedNonIncreasing ==
    tool = "quality" =>
        /\ \A r \in 1..Len(stdout) : stdout[r].line \in answered
        /\ \A n \in answered :
              /\ RowsWellFormed(n)
              /\ \A j \in 1..(Len(RowsOf(n)) - 1) :
                    RowsOf(n)[j].score >= RowsOf(n)[j + 1].score

\* An answer cut to 10 rows out of more matches, with different scores and
\* with two rows of equal score.
C6_Witness ==
    /\ tool = "quality" /\ pc = "q_done"
    /\ \E n \in answered :
          /\ Cardinality(MatchesOfLine(n)) > 10
          /\ Len(RowsOf(n)) = 10
          /\ RowsOf(n)[1].score > RowsOf(n)[10].score
          /\ \E j \in 1..9 : RowsOf(n)[j].score = RowsOf(n)[j + 1].score

-----------------------------------------------------------------------------
(* Claim about the field text in both tools, under SpecFields *)

\* The text of instrument inst that field text f selects, case by case.
SelectsByLiteral(f, inst, text) ==
    /\ f = SYMBOL => text = inst.symbol
    /\ f = ISIN => text = inst.isin
    /\ f \notin {SYMBOL, ISIN} => text = inst.name

HasTab(line) == \E k \in 1..Len(line) : line[k] = TAB

\* C3: the column scored for a query is the symbol column for the field
\* text "symbol", the isin column for "isin" and the name column for every
\* other text, in the bench tool's warmup and timed pass and in the quality
\* tool; whatever the field, the bench tool scans every query in every
\* iteration without an error and the quality tool answers every line that
\* has a tab.
C3_FieldSelectsColumn ==
    /\ (tool = "bench" /\ pc = "scan") =>
          /\ Len(candidates) = Len(instruments)
          /\ \A k \in 1..Len(instruments) :
                SelectsByLiteral(queries[qi + 1].field, instruments[k], candidates[k])
    /\ (tool = "bench" /\ pc = "warmup" /\ wq > 0) =>
          /\ Len(candidates) = Len(instruments)
          /\ \A k \in 1..Len(instruments) :
                SelectsByLiteral(queries[wq].field, instruments[k], candidates[k])
    /\ (tool = "quality" /\ pc = "q_scan") =>
          /\ field = LineParts(line_no)[2]
          /\ idx > 0 => SelectsByLiteral(field, instruments[idx], candidate)
    /\ tool = "bench" => pc \notin {"aborted", "panicked"}
    /\ (tool = "bench" /\ pc = "done") =>
          \A q \in 1..Len(queries) : \A it \in 0..(iterations - 1) :
              \E e \in count_log : e[1] = it /\ e[2] = q
    /\ (tool = "quality" /\ pc = "q_done") =>
          answered = { n \in 1..Len(stdin) : HasTab(stdin[n]) }

\* The timed pass scans the name column for a query whose field is "symbol"
\* in another letter case, after a query on the isin column.
C3_Witness ==
    /\ tool = "bench" /\ pc = "scan"
    /\ qi = 1 /\ ci = Len(instruments)
    /\ queries[1].field = ISIN
    /\ queries[2].field = <<"S", "y", "m", "b", "o", "l">>
    /\ candidates = name_candidates

-----------------------------------------------------------------------------
(* Claim about ties at the K-th position, under SpecTopK *)

\* The entries the scan of query q pushes, in scan order.
PushedOf(q) ==
    CHOOSE pushed \in
        { [j \in 1..Len(matched) |-> <<sc[matched[j]][1], matched[j] - 1>>] :
            sc \in {ScoresOf(q)},
            matched \in {SelectSeqIdx(ScoresOf(q), LAMBDA o : o # None)} } : TRUE

RECURSIVE PushAll(_, _, _, _)
\* The heap after the entries order[lo..hi] have gone through the push-and-
\* evict step, one after the other.
PushAll(data, order, lo, hi) ==
    IF lo > hi THEN data
    ELSE IF lo = hi THEN PushEvict(data, order[lo])
    ELSE CHOOSE out \in { PushAll(left, order, (lo + hi) \div 2 + 1, hi) :
                            left \in {PushAll(data, order, lo, (lo + hi) \div 2)} } : TRUE

Elements(s) == { s[j] : j \in 1..Len(s) }

\* The entries retained when the entries of order are pushed in that order.
RetainedIn(order) == Elements(PushAll(<<>>, order, 1, Len(order)))

\* Other orders of the same entries: reversed, rotated, the odd positions
\* before the even ones, and the two ends exchanged.
Reorderings(s) ==
    LET n == Len(s)
    IN  { [j \in 1..n |-> s[n + 1 - j]],
          [j \in 1..n |-> s[((j + 0) % n) + 1]],
          [j \in 1..n |-> s[((j + 1) % n) + 1]],
          [j \in 1..n |-> s[((j + (n \div 2)) % n) + 1]],
          [j \in 1..n |-> IF 2 * j - 1 <= n THEN s[2 * j - 1]
                           ELSE s[2 * (j - (n + 1) \div 2)]],
          [j \in 1..n |-> IF j = 1 THEN s[n] ELSE IF j = n THEN s[1] ELSE s[j]] }

\* The K entries that are greatest by score and then by index.
GreatestByValue(entries) ==
    { x \in entries :
        Cardinality({ y \in entries :
                        y[1] > x[1] \/ (y[1] = x[1] /\ y[2] > x[2]) }) < TOP_K }

\* A finished scan of query qi with more than TOP_K matches where an entry
\* left out has the score of the lowest entry retained.
TieAtKth ==
    /\ tool = "bench" /\ pc = "query_head" /\ qi > 0
    /\ Cardinality(MatchedOf(qi)) > TOP_K
    /\ \E x \in Elements(PushedOf(qi)) \ Elements(top_results) :
          \E y \in Elements(top_results) :
              /\ x[1] = y[1]
              /\ \A z \in Elements(top_results) : y[1] <= z[1]

\* C10 as stated: with a tie at the K-th position, the tied candidates that
\* are retained depend on the push order: some other order of the same
\* entries retains another set than the scan did.
C10_AsStated ==
    TieAtKth =>
        \E order \in Reorderings(PushedOf(qi)) : RetainedIn(order) # Elements(top_results)

\* C10 amended: with a tie at the K-th position, the entries retained are
\* fixed by their (score, index) values: they are the TOP_K greatest by score
\* and then by index, so of the tied candidates the ones of highest index,
\* and every other push order of the same entries retains the same set.
C10_RetainedSetFixedByValues ==
    TieAtKth =>
        /\ Elements(top_results) = GreatestByValue(Elements(PushedOf(qi)))
        /\ \A order \in Reorderings(PushedOf(qi)) :
              RetainedIn(order) = Elements(top_results)

\* A tie at the K-th position between more than two candidates, two of them
\* left out.
C10_Witness ==
    /\ TieAtKth
    /\ Cardinality(Elements(PushedOf(qi)) \ Elements(top_results)) >= 2
    /\ \E x \in Elements(top_results) : \E y \in Elements(top_results) :
          x # y /\ x[1] = y[1] /\ \A z \in Elements(top_results) : x[1] <= z[1]

=============================================================================
